---- MODULE Spec2Model ----
(***************************************************************************)
(* Analytics dashboard backend: registration, login, bearer tokens and the *)
(* role/permission gate in front of the dashboard, analytics and report    *)
(* endpoints (src/Backend/app/...), with the token and password helpers of *)
(* src/Backend.py, and the numeric-rank permission check of src/Backend.py *)
(* next to the permission table.                                           *)
(*                                                                         *)
(* Every handler is an `async def` without an await in its body, so the    *)
(* event loop runs each handler to completion: one action per handler.     *)
(* Time is counted in minutes.                                             *)
(***************************************************************************)
EXTENDS Integers, Sequences, FiniteSets, TLC

VARIABLES
    users_db,   \* DatabaseService.users_db: email -> user record
    now,        \* datetime.utcnow(), in minutes
    held,       \* the client side: the token of the latest Token response
    resp,       \* the latest request and the response it got
    reg_log     \* per email, the bodies of the registrations answered 201

vars == <<users_db, now, held, resp, reg_log>>

----------------------------------------------------------------------------
(* Bounds of the model *)

MaxTime == 45
TickMinutes == 15

----------------------------------------------------------------------------
(* Values *)

None == [none |-> TRUE]

NoTime == <<>>

UserRole == {"admin", "manager", "analyst", "viewer"}

SECRET_KEY == "your-secret-key-change-in-production"

ACCESS_TOKEN_EXPIRE_MINUTES == 30

\* Passwords are character sequences.
pw_secret == <<"s", "e", "c", "r", "e", "t">>
pw_strong == <<"A", "b", "c", "d", "e", "f", "1", "2">>
pw_nodigit == <<"A", "b", "c", "d", "e", "f", "g", "h">>
pw_short == <<"w", "e", "a", "k">>

UpperChars == {"A", "B", "C", "D", "E", "F"}
LowerChars == {"a", "b", "c", "d", "e", "f", "g", "h", "k", "r", "s", "t", "w"}
DigitChars == {"0", "1", "2", "3", "4", "5", "6", "7", "8", "9"}

----------------------------------------------------------------------------
(* app/core/permissions.py *)

ROLE_PERMISSIONS ==
    [r \in UserRole |->
        CASE r = "viewer"  -> <<"dashboard:read">>
          [] r = "analyst" -> <<"dashboard:read", "analytics:read">>
          [] r = "manager" -> <<"dashboard:read", "analytics:read", "reports:export">>
          [] r = "admin"   -> <<"dashboard:read", "analytics:read", "reports:export",
                                "users:manage">>]

\* dict.get(key, default)
DictGet(d, key, default) == IF key \in DOMAIN d THEN d[key] ELSE default

\* x in list
InList(x, list) == \E i \in 1..Len(list) : list[i] = x

\* Variant: an unknown role falls back to the viewer row.
check_permission_default_viewer(user_role, required_permission) ==
    LET user_permissions == DictGet(ROLE_PERMISSIONS, user_role, ROLE_PERMISSIONS["viewer"])
    IN  InList(required_permission, user_permissions)

check_permission(user_role, required_permission) ==
    LET user_permissions == DictGet(ROLE_PERMISSIONS, user_role, <<>>)
    IN  InList(required_permission, user_permissions)

Forbidden(required_permission) ==
    [status |-> 403, kind |-> "Forbidden",
     detail |-> <<"Insufficient permissions. Required: ", required_permission>>]

\* Variant: the exception is built but not raised.
require_permission_no_raise(user_role, required_permission) == None

\* None when the call returns, the HTTPException when it raises.
require_permission(user_role, required_permission) ==
    IF ~check_permission(user_role, required_permission)
    THEN Forbidden(required_permission)
    ELSE None

----------------------------------------------------------------------------
(* Password and token helpers (auth_service; src/Backend.py) *)

\* bcrypt: the digest is salted and verifies exactly against its plaintext.
get_password_hash(password) == [scheme |-> "bcrypt", plain |-> password]

verify_password(plain_password, hashed_password) ==
    /\ "scheme" \in DOMAIN hashed_password
    /\ hashed_password.scheme = "bcrypt"
    /\ hashed_password.plain = plain_password

validate_password_strength(password) ==
    /\ Len(password) >= 8
    /\ \E i \in 1..Len(password) : password[i] \in UpperChars
    /\ \E i \in 1..Len(password) : password[i] \in LowerChars
    /\ \E i \in 1..Len(password) : password[i] \in DigitChars

\* jwt.encode(payload, key): a payload signed with a key.
jwt_encode(payload, key) == [payload |-> payload, key |-> key]

create_access_token(data, t) ==
    LET expire == t + ACCESS_TOKEN_EXPIRE_MINUTES
        to_encode == [sub |-> data.sub, exp |-> expire]
    IN  jwt_encode(to_encode, SECRET_KEY)

Unauthorized(detail) ==
    [status |-> 401, kind |-> "Unauthenticated", detail |-> detail]

\* Variant: a token is expired from its exp instant on.
jwt_decode_expired_at_exp(token, t) ==
    IF "payload" \notin DOMAIN token THEN None
    ELSE IF token.key # SECRET_KEY THEN None
    ELSE IF "exp" \in DOMAIN token.payload /\ token.payload.exp <= t THEN None
    ELSE token.payload

\* jwt.decode(token, SECRET_KEY): the payload, or None for a JWTError
\* (not a JWT, signature made with another key, exp in the past).
jwt_decode(token, t) ==
    IF "payload" \notin DOMAIN token THEN None
    ELSE IF token.key # SECRET_KEY THEN None
    ELSE IF "exp" \in DOMAIN token.payload /\ token.payload.exp < t THEN None
    ELSE token.payload

\* [ok, payload] or [ok, error]
verify_token(token, t) ==
    LET payload == jwt_decode(token, t)
    IN  IF payload = None
        THEN [ok |-> FALSE, error |-> Unauthorized("Could not validate credentials")]
        ELSE [ok |-> TRUE, payload |-> payload]


----------------------------------------------------------------------------
(* app/core/database.py *)

\* Python's None where a str key is expected (dict.get(None) finds nothing).
NoneKey == "None"

\* d[key] = value
DictSet(d, key, value) ==
    [k \in DOMAIN d \cup {key} |-> IF k = key THEN value ELSE d[k]]

demo_users == <<
    [email |-> "admin@example.com", password |-> pw_secret,
     full_name |-> "Admin User", role |-> "admin"],
    [email |-> "manager@example.com", password |-> pw_secret,
     full_name |-> "Manager User", role |-> "manager"],
    [email |-> "analyst@example.com", password |-> pw_secret,
     full_name |-> "Data Analyst", role |-> "analyst"],
    [email |-> "viewer@example.com", password |-> pw_secret,
     full_name |-> "Viewer User", role |-> "viewer"] >>

DemoEmails == {demo_users[i].email : i \in 1..Len(demo_users)}

RECURSIVE create_demo_users_from(_, _, _)
create_demo_users_from(db, i, t) ==
    IF i > Len(demo_users) THEN db
    ELSE LET user_data == demo_users[i]
         IN  create_demo_users_from(
                 DictSet(db, user_data.email,
                     [id |-> i,
                      email |-> user_data.email,
                      hashed_password |-> get_password_hash(user_data.password),
                      full_name |-> user_data.full_name,
                      role |-> user_data.role,
                      is_active |-> TRUE,
                      created_at |-> t,
                      last_login |-> NoTime]),
                 i + 1, t)

\* DatabaseService.__init__: the empty dict, then the demo users.
EmptyDict == [k \in {} |-> None]

create_demo_users(t) == create_demo_users_from(EmptyDict, 1, t)

get_user_by_email(db, email) == DictGet(db, email, None)

\* Variant: no membership test, the record is always written.
create_user_overwrite(db, user_data, t) ==
    LET user_id == Cardinality(DOMAIN db) + 1
        new_user == [id |-> user_id,
                     email |-> user_data.email,
                     hashed_password |-> get_password_hash(user_data.password),
                     full_name |-> user_data.full_name,
                     role |-> user_data.role,
                     is_active |-> TRUE,
                     created_at |-> t,
                     last_login |-> NoTime]
    IN  [raised |-> FALSE,
         db |-> DictSet(db, user_data.email, new_user),
         user |-> new_user]

\* Variant: the record is written before the membership test raises.
create_user_write_then_raise(db, user_data, t) ==
    LET written == create_user_overwrite(db, user_data, t)
    IN  IF user_data.email \in DOMAIN db
        THEN [raised |-> TRUE, error |-> "Email already registered", db |-> written.db]
        ELSE written

\* Variant: an email already in the store has its record updated in place
\* (the id is kept) from the new data.
create_user_update_existing(db, user_data, t) ==
    LET user_id == IF user_data.email \in DOMAIN db
                   THEN db[user_data.email].id
                   ELSE Cardinality(DOMAIN db) + 1
        new_user == [id |-> user_id,
                     email |-> user_data.email,
                     hashed_password |-> get_password_hash(user_data.password),
                     full_name |-> user_data.full_name,
                     role |-> user_data.role,
                     is_active |-> TRUE,
                     created_at |-> t,
                     last_login |-> NoTime]
    IN  IF user_data.email \in DOMAIN db
        THEN [raised |-> TRUE, error |-> "Email already registered",
              db |-> DictSet(db, user_data.email, new_user)]
        ELSE [raised |-> FALSE,
              db |-> DictSet(db, user_data.email, new_user),
              user |-> new_user]

\* Variant: the id is the number of records before the insertion.
create_user_id_len(db, user_data, t) ==
    IF user_data.email \in DOMAIN db
    THEN [raised |-> TRUE, error |-> "Email already registered", db |-> db]
    ELSE LET user_id == Cardinality(DOMAIN db)
             new_user == [id |-> user_id,
                          email |-> user_data.email,
                          hashed_password |-> get_password_hash(user_data.password),
                          full_name |-> user_data.full_name,
                          role |-> user_data.role,
                          is_active |-> TRUE,
                          created_at |-> t,
                          last_login |-> NoTime]
         IN  [raised |-> FALSE,
              db |-> DictSet(db, user_data.email, new_user),
              user |-> new_user]

\* Variant: a new account starts deactivated.
create_user_inactive(db, user_data, t) ==
    IF user_data.email \in DOMAIN db
    THEN [raised |-> TRUE, error |-> "Email already registered", db |-> db]
    ELSE LET user_id == Cardinality(DOMAIN db) + 1
             new_user == [id |-> user_id,
                          email |-> user_data.email,
                          hashed_password |-> get_password_hash(user_data.password),
                          full_name |-> user_data.full_name,
                          role |-> user_data.role,
                          is_active |-> FALSE,
                          created_at |-> t,
                          last_login |-> NoTime]
         IN  [raised |-> FALSE,
              db |-> DictSet(db, user_data.email, new_user),
              user |-> new_user]

\* [raised, error, db] when ValueError is raised, [raised, db, user] otherwise.
create_user(db, user_data, t) ==
    IF user_data.email \in DOMAIN db
    THEN [raised |-> TRUE, error |-> "Email already registered", db |-> db]
    ELSE LET user_id == Cardinality(DOMAIN db) + 1
             new_user == [id |-> user_id,
                          email |-> user_data.email,
                          hashed_password |-> get_password_hash(user_data.password),
                          full_name |-> user_data.full_name,
                          role |-> user_data.role,
                          is_active |-> TRUE,
                          created_at |-> t,
                          last_login |-> NoTime]
         IN  [raised |-> FALSE,
              db |-> DictSet(db, user_data.email, new_user),
              user |-> new_user]

update_last_login(db, email, t) ==
    IF email \in DOMAIN db
    THEN [db EXCEPT ![email].last_login = <<t>>]
    ELSE db

----------------------------------------------------------------------------
(* app/schemas/user.py *)

MinPasswordLength == 8
MaxPasswordLength == 100

\* The request body of /auth/register: role may be left out.
Absent == "(absent)"

\* UserCreate(**body): pydantic's validation of the body.
UserCreateValid(body) ==
    /\ Len(body.password) >= MinPasswordLength
    /\ Len(body.password) <= MaxPasswordLength
    /\ body.role \in UserRole \cup {Absent}

\* Variant: the role of the body is dropped, every new user is a viewer.
UserCreate_always_viewer(body) ==
    [email |-> body.email,
     full_name |-> body.full_name,
     role |-> "viewer",
     password |-> body.password]

\* user_data.model_dump(): the role defaults to viewer.
UserCreate(body) ==
    [email |-> body.email,
     full_name |-> body.full_name,
     role |-> IF body.role = Absent THEN "viewer" ELSE body.role,
     password |-> body.password]

\* UserResponse(**user): the fields of the response model.
UserResponse(user) ==
    [email |-> user.email, full_name |-> user.full_name, role |-> user.role,
     id |-> user.id, is_active |-> user.is_active,
     created_at |-> user.created_at, last_login |-> user.last_login]

\* Token(access_token=..., user=...)
Token(access_token, user) ==
    [access_token |-> access_token, token_type |-> "bearer", user |-> user]

ValidationError ==
    [status |-> 422, kind |-> "ValidationError", detail |-> "Unprocessable Entity"]


----------------------------------------------------------------------------
(* app/api/deps.py *)

\* Variant: an unknown subject is answered 404.
get_current_user_404(db, token, t) ==
    LET verified == verify_token(token, t)
    IN  IF ~verified.ok THEN [ok |-> FALSE, db |-> db, error |-> verified.error]
        ELSE LET email == DictGet(verified.payload, "sub", NoneKey)
                 user == get_user_by_email(db, email)
             IN  IF user = None
                 THEN [ok |-> FALSE, db |-> db,
                       error |-> [status |-> 404, kind |-> "NotFound",
                                  detail |-> "User not found"]]
                 ELSE IF ~user.is_active
                 THEN [ok |-> FALSE, db |-> db,
                       error |-> Unauthorized("User not found or inactive")]
                 ELSE [ok |-> TRUE, db |-> db, user |-> user]

\* Variant: resolving the user stamps the record, as a login does.
get_current_user_touch(db, token, t) ==
    LET verified == verify_token(token, t)
    IN  IF ~verified.ok THEN [ok |-> FALSE, db |-> db, error |-> verified.error]
        ELSE LET email == DictGet(verified.payload, "sub", NoneKey)
                 user == get_user_by_email(db, email)
             IN  IF user = None \/ ~user.is_active
                 THEN [ok |-> FALSE, db |-> db,
                       error |-> Unauthorized("User not found or inactive")]
                 ELSE [ok |-> TRUE, db |-> update_last_login(db, email, t),
                       user |-> user]

\* [ok, user, db] or [ok, error, db]; db is the store after the call (the
\* only store call is the read get_user_by_email).
get_current_user(db, token, t) ==
    LET verified == verify_token(token, t)
    IN  IF ~verified.ok THEN [ok |-> FALSE, db |-> db, error |-> verified.error]
        ELSE LET email == DictGet(verified.payload, "sub", NoneKey)
                 user == get_user_by_email(db, email)
             IN  IF user = None \/ ~user.is_active
                 THEN [ok |-> FALSE, db |-> db,
                       error |-> Unauthorized("User not found or inactive")]
                 ELSE [ok |-> TRUE, db |-> db, user |-> user]

InactiveUser ==
    [status |-> 400, kind |-> "AccountDisabled", detail |-> "Inactive user"]

\* Depends(get_current_user), then the active check.
get_current_active_user(db, token, t) ==
    LET current_user == get_current_user(db, token, t)
    IN  IF ~current_user.ok THEN current_user
        ELSE IF ~current_user.user.is_active
        THEN [ok |-> FALSE, db |-> current_user.db, error |-> InactiveUser]
        ELSE current_user

----------------------------------------------------------------------------
(* app/api/v1/endpoints: the protected handlers.  Each yields the response: *)
(* an HTTPException, or status 200 with the body the handler computed.      *)

Ok(body) == [status |-> 200, kind |-> "OK", body |-> body]

\* analytics_service.get_dashboard_data(role): opaque, role-dependent data.
analytics_dashboard_data(user_role) == [dashboard_for |-> user_role]

get_current_user_info(db, token, t) ==
    LET dep == get_current_active_user(db, token, t)
    IN  IF ~dep.ok THEN dep.error
        ELSE Ok(UserResponse(dep.user))

get_dashboard_data(db, token, t) ==
    LET dep == get_current_active_user(db, token, t)
    IN  IF ~dep.ok THEN dep.error
        ELSE LET denied == require_permission(dep.user.role, "dashboard:read")
             IN  IF denied # None THEN denied
                 ELSE Ok(analytics_dashboard_data(dep.user.role))

get_detailed_analytics(db, token, t) ==
    LET dep == get_current_active_user(db, token, t)
    IN  IF ~dep.ok THEN dep.error
        ELSE LET denied == require_permission(dep.user.role, "analytics:read")
             IN  IF denied # None THEN denied
                 ELSE Ok(analytics_dashboard_data(dep.user.role))

export_report(db, token, t) ==
    LET dep == get_current_active_user(db, token, t)
    IN  IF ~dep.ok THEN dep.error
        ELSE LET denied == require_permission(dep.user.role, "reports:export")
             IN  IF denied # None THEN denied
                 ELSE Ok([message |-> "Report generated successfully",
                          generated_by |-> dep.user.full_name])

----------------------------------------------------------------------------
(* app/api/v1/endpoints/auth.py *)

WeakPassword ==
    [status |-> 400, kind |-> "WeakPassword",
     detail |-> "Password must be at least 8 characters with uppercase, lowercase, and number"]

\* [out, db]: the response and the store after the call.
register_user(db, body, t) ==
    IF ~UserCreateValid(body) THEN [out |-> ValidationError, db |-> db]
    ELSE LET user_data == UserCreate(body)
         IN  IF ~validate_password_strength(user_data.password)
             THEN [out |-> WeakPassword, db |-> db]
             ELSE LET created == create_user(db, user_data, t)
                  IN  IF created.raised
                      THEN [out |-> [status |-> 400, kind |-> "DuplicateEmail",
                                     detail |-> created.error],
                            db |-> created.db]
                      ELSE LET access_token ==
                                   create_access_token([sub |-> created.user.email], t)
                               user_response == UserResponse(created.user)
                           IN  [out |-> [status |-> 201, kind |-> "OK",
                                         body |-> Token(access_token, user_response)],
                                db |-> created.db]

InvalidCredentials ==
    [status |-> 401, kind |-> "InvalidCredentials", detail |-> "Invalid email or password"]

InactiveAccount ==
    [status |-> 400, kind |-> "AccountDisabled", detail |-> "Inactive user account"]

\* Variant: an unknown email is answered 404.
login_user_404(db, credentials, t) ==
    LET user == get_user_by_email(db, credentials.email)
    IN  IF user = None
        THEN [out |-> [status |-> 404, kind |-> "NotFound", detail |-> "User not found"],
              db |-> db]
        ELSE IF ~verify_password(credentials.password, user.hashed_password)
        THEN [out |-> InvalidCredentials, db |-> db]
        ELSE IF ~user.is_active
        THEN [out |-> InactiveAccount, db |-> db]
        ELSE LET db2 == update_last_login(db, credentials.email, t)
                 access_token == create_access_token([sub |-> user.email], t)
                 user_response == UserResponse(db2[credentials.email])
             IN  [out |-> [status |-> 200, kind |-> "OK",
                           body |-> Token(access_token, user_response)],
                  db |-> db2]

\* Variant: last_login is stamped once the password verified, before the
\* active check.
login_user_stamp_before_active(db, credentials, t) ==
    LET user == get_user_by_email(db, credentials.email)
    IN  IF user = None \/ ~verify_password(credentials.password, user.hashed_password)
        THEN [out |-> InvalidCredentials, db |-> db]
        ELSE LET db2 == update_last_login(db, credentials.email, t)
             IN  IF ~user.is_active
                 THEN [out |-> InactiveAccount, db |-> db2]
                 ELSE LET access_token == create_access_token([sub |-> user.email], t)
                          user_response == UserResponse(db2[credentials.email])
                      IN  [out |-> [status |-> 200, kind |-> "OK",
                                    body |-> Token(access_token, user_response)],
                           db |-> db2]

\* Variant: the active check comes before the password check.
login_user_active_first(db, credentials, t) ==
    LET user == get_user_by_email(db, credentials.email)
    IN  IF user = None
        THEN [out |-> InvalidCredentials, db |-> db]
        ELSE IF ~user.is_active
        THEN [out |-> InactiveAccount, db |-> db]
        ELSE IF ~verify_password(credentials.password, user.hashed_password)
        THEN [out |-> InvalidCredentials, db |-> db]
        ELSE LET db2 == update_last_login(db, credentials.email, t)
                 access_token == create_access_token([sub |-> user.email], t)
                 user_response == UserResponse(db2[credentials.email])
             IN  [out |-> [status |-> 200, kind |-> "OK",
                           body |-> Token(access_token, user_response)],
                  db |-> db2]

\* [out, db]: the response and the store after the call.
login_user(db, credentials, t) ==
    LET user == get_user_by_email(db, credentials.email)
    IN  IF user = None \/ ~verify_password(credentials.password, user.hashed_password)
        THEN [out |-> InvalidCredentials, db |-> db]
        ELSE IF ~user.is_active
        THEN [out |-> InactiveAccount, db |-> db]
        ELSE LET db2 == update_last_login(db, credentials.email, t)
                 access_token == create_access_token([sub |-> user.email], t)
                 user_response == UserResponse(db2[credentials.email])
             IN  [out |-> [status |-> 200, kind |-> "OK",
                           body |-> Token(access_token, user_response)],
                  db |-> db2]


----------------------------------------------------------------------------
(* The requests the clients send *)

NewEmails == {"new1@example.com"}

\* Further emails, for runs of registrations alone.
MoreEmails == {"new2@example.com", "new3@example.com"}

AllEmails == DemoEmails \cup NewEmails \cup MoreEmails

RegEmails == NewEmails \cup {"viewer@example.com"}
RegPasswords == {pw_strong, pw_nodigit, pw_short}
RegRoles == {Absent, "admin"}
RegBodies ==
    [email : RegEmails, password : RegPasswords, full_name : {"New User"},
     role : RegRoles]

LoginEmails == {"viewer@example.com", "new1@example.com"}
LoginPasswords == {pw_secret, pw_strong}
Credentials == [email : LoginEmails, password : LoginPasswords]

FarFuture == MaxTime + ACCESS_TOKEN_EXPIRE_MINUTES

\* Bearer credentials a client can present besides the token it was given:
\* tokens signed with the key of the source for any subject or none, a token
\* that expires at time 0, a token signed with another key, and a string
\* that is no JWT.
CraftedTokens ==
    {jwt_encode([sub |-> e, exp |-> FarFuture], SECRET_KEY) :
        e \in DemoEmails \cup {"nobody@example.com"}}
    \cup {jwt_encode([exp |-> FarFuture], SECRET_KEY),
          jwt_encode([sub |-> "manager@example.com", exp |-> 0], SECRET_KEY),
          jwt_encode([sub |-> "admin@example.com", exp |-> FarFuture], "another-key"),
          [garbage |-> "not.a.jwt"]}

PresentedTokens ==
    CraftedTokens \cup (IF held = None THEN {} ELSE {held.token})

----------------------------------------------------------------------------
(* The state machine *)

MaxLog == 2

\* The request, the response, and the time the request was served at.
Reply(op, req, out) == [op |-> op, req |-> req, out |-> out, at |-> now]

\* The client keeps the token of a Token response, with its time of issue.
Keep(out, t) ==
    IF out.kind = "OK" THEN [token |-> out.body.access_token, iat |-> t] ELSE held

Logged(log, out, body) ==
    IF out.status = 201 /\ Len(log[body.email]) < MaxLog
    THEN [log EXCEPT ![body.email] = Append(@, UserCreate(body))]
    ELSE log

Init ==
    /\ now = 0
    /\ users_db = create_demo_users(0)
    /\ held = None
    /\ resp = Reply("start", None, None)
    /\ reg_log = [e \in AllEmails |-> <<>>]

Tick ==
    /\ now + TickMinutes <= MaxTime
    /\ now' = now + TickMinutes
    /\ UNCHANGED <<users_db, held, resp, reg_log>>

Register ==
    \E body \in RegBodies :
        LET r == register_user(users_db, body, now)
        IN  /\ users_db' = r.db
            /\ resp' = Reply("register", body, r.out)
            /\ held' = Keep(r.out, now)
            /\ reg_log' = Logged(reg_log, r.out, body)
            /\ UNCHANGED now

Login ==
    \E credentials \in Credentials :
        LET r == login_user(users_db, credentials, now)
        IN  /\ users_db' = r.db
            /\ resp' = Reply("login", credentials, r.out)
            /\ held' = Keep(r.out, now)
            /\ UNCHANGED <<now, reg_log>>

Me ==
    \E token \in PresentedTokens :
        /\ resp' = Reply("me", [token |-> token],
                         get_current_user_info(users_db, token, now))
        /\ users_db' = get_current_active_user(users_db, token, now).db
        /\ UNCHANGED <<now, held, reg_log>>

Dashboard ==
    \E token \in PresentedTokens :
        /\ resp' = Reply("dashboard", [token |-> token],
                         get_dashboard_data(users_db, token, now))
        /\ users_db' = get_current_active_user(users_db, token, now).db
        /\ UNCHANGED <<now, held, reg_log>>

Detailed ==
    \E token \in PresentedTokens :
        /\ resp' = Reply("detailed", [token |-> token],
                         get_detailed_analytics(users_db, token, now))
        /\ users_db' = get_current_active_user(users_db, token, now).db
        /\ UNCHANGED <<now, held, reg_log>>

Export ==
    \E token \in PresentedTokens :
        /\ resp' = Reply("export", [token |-> token],
                         export_report(users_db, token, now))
        /\ users_db' = get_current_active_user(users_db, token, now).db
        /\ UNCHANGED <<now, held, reg_log>>

Next == Tick \/ Register \/ Login \/ Me \/ Dashboard \/ Detailed \/ Export

Spec == Init /\ [][Next]_vars


----------------------------------------------------------------------------
(* The handlers over a store that holds a deactivated account.  The user   *)
(* record carries is_active (models/user.py: a Boolean column), and        *)
(* login_user, get_current_user and get_current_active_user read it.       *)

Deactivatable == {"viewer@example.com"}

InitInactive ==
    /\ now = 0
    /\ users_db \in {create_demo_users(0)} \cup
                    {[create_demo_users(0) EXCEPT ![e].is_active = FALSE] :
                        e \in Deactivatable}
    /\ held = None
    /\ resp = Reply("start", None, None)
    /\ reg_log = [e \in AllEmails |-> <<>>]

SpecInactive == InitInactive /\ [][Next]_vars

----------------------------------------------------------------------------
(* Registrations alone, for several emails: the ids create_user hands out *)

SeqEmails == NewEmails \cup MoreEmails \cup {"viewer@example.com"}

SeqPasswords == {pw_strong, pw_nodigit}

SeqBodies ==
    [email : SeqEmails, password : SeqPasswords, full_name : {"New User"},
     role : RegRoles]

RegisterSeq ==
    \E body \in SeqBodies :
        LET r == register_user(users_db, body, now)
        IN  /\ users_db' = r.db
            /\ resp' = Reply("register", body, r.out)
            /\ held' = Keep(r.out, now)
            /\ reg_log' = Logged(reg_log, r.out, body)
            /\ UNCHANGED now

NextRegister == Tick \/ RegisterSeq

SpecRegister == Init /\ [][NextRegister]_vars

----------------------------------------------------------------------------
(* PermissionService called directly, on any role value and any string *)

RoleValues == UserRole \cup {"guest", "superuser", "ADMIN", ""}

Permissions == {"dashboard:read", "analytics:read", "reports:export", "users:manage"}

PermissionStrings == Permissions \cup {"users:delete", "dashboard:write", "DASHBOARD:READ", ""}

CheckPermission ==
    \E user_role \in RoleValues, required_permission \in PermissionStrings :
        /\ resp' = Reply("check_permission",
                         [role |-> user_role, permission |-> required_permission],
                         [returned |-> check_permission(user_role, required_permission)])
        /\ UNCHANGED <<users_db, now, held, reg_log>>

RequirePermission ==
    \E user_role \in RoleValues, required_permission \in PermissionStrings :
        /\ resp' = Reply("require_permission",
                         [role |-> user_role, permission |-> required_permission],
                         require_permission(user_role, required_permission))
        /\ UNCHANGED <<users_db, now, held, reg_log>>

NextPermission == CheckPermission \/ RequirePermission

SpecPermission == Init /\ [][NextPermission]_vars


----------------------------------------------------------------------------
(* src/Backend.py: the numeric-rank check and the endpoints that call it,   *)
(* applied to a resolved user of any role value, next to the table check.   *)

role_hierarchy ==
    [r \in UserRole |->
        CASE r = "viewer"  -> 1
          [] r = "analyst" -> 2
          [] r = "manager" -> 3
          [] r = "admin"   -> 4]

Backend_Forbidden ==
    [status |-> 403, kind |-> "Forbidden", detail |-> "Insufficient permissions"]

\* Variant: the required level must be exceeded.
Backend_check_permission_exceed(user, required_role) ==
    LET user_level == DictGet(role_hierarchy, user.role, 0)
        required_level == DictGet(role_hierarchy, required_role, 0)
    IN  IF user_level <= required_level THEN Backend_Forbidden ELSE None

\* check_permission of Backend.py: None when the call returns, the
\* HTTPException when it raises.
Backend_check_permission(user, required_role) ==
    LET user_level == DictGet(role_hierarchy, user.role, 0)
        required_level == DictGet(role_hierarchy, required_role, 0)
    IN  IF user_level < required_level THEN Backend_Forbidden ELSE None

\* generate_sample_data(): opaque.
generate_sample_data == [dashboard |-> "sample data"]

Backend_get_dashboard_data(current_user) == Ok(generate_sample_data)

Backend_get_detailed_analytics(current_user) ==
    LET denied == Backend_check_permission(current_user, "analyst")
    IN  IF denied # None THEN denied ELSE Ok(generate_sample_data)

Backend_export_report(current_user) ==
    LET denied == Backend_check_permission(current_user, "manager")
    IN  IF denied # None THEN denied
        ELSE Ok([report_type |-> "summary", generated_by |-> current_user.full_name])

Backend_get_users(current_user) ==
    LET denied == Backend_check_permission(current_user, "admin")
    IN  IF denied # None THEN denied ELSE Ok([users |-> "all users"])

\* The user get_current_user resolved: any role value.
ResolvedUsers == [role : RoleValues, full_name : {"Some User"}]

BackendCheckPermission ==
    \E user \in ResolvedUsers, required_role \in RoleValues :
        /\ resp' = Reply("Backend.check_permission",
                         [role |-> user.role, required_role |-> required_role],
                         Backend_check_permission(user, required_role))
        /\ UNCHANGED <<users_db, now, held, reg_log>>

BackendDashboard ==
    \E user \in ResolvedUsers :
        /\ resp' = Reply("Backend.dashboard", [role |-> user.role],
                         Backend_get_dashboard_data(user))
        /\ UNCHANGED <<users_db, now, held, reg_log>>

BackendDetailed ==
    \E user \in ResolvedUsers :
        /\ resp' = Reply("Backend.detailed", [role |-> user.role],
                         Backend_get_detailed_analytics(user))
        /\ UNCHANGED <<users_db, now, held, reg_log>>

BackendExport ==
    \E user \in ResolvedUsers :
        /\ resp' = Reply("Backend.export", [role |-> user.role],
                         Backend_export_report(user))
        /\ UNCHANGED <<users_db, now, held, reg_log>>

BackendUsers ==
    \E user \in ResolvedUsers :
        /\ resp' = Reply("Backend.users", [role |-> user.role],
                         Backend_get_users(user))
        /\ UNCHANGED <<users_db, now, held, reg_log>>

NextBackend ==
    \/ BackendCheckPermission
    \/ BackendDashboard
    \/ BackendDetailed
    \/ BackendExport
    \/ BackendUsers
    \/ RequirePermission

SpecBackend == Init /\ [][NextBackend]_vars

----------------------------------------------------------------------------
(* Properties *)

\* The permission table as the specification gives it (section 4.3).
TableRow(role) ==
    CASE role = "viewer"  -> {"dashboard:read"}
      [] role = "analyst" -> {"dashboard:read", "analytics:read"}
      [] role = "manager" -> {"dashboard:read", "analytics:read", "reports:export"}
      [] role = "admin"   -> {"dashboard:read", "analytics:read", "reports:export",
                              "users:manage"}
      [] OTHER            -> {}

\* C1: check_permission(role, p) returns true exactly when p is in the table
\* row of role; for a role value outside the four roles it returns false for
\* every permission string, and it returns (it raises nothing).
C1_PermissionTable ==
    resp.op = "check_permission" =>
        /\ DOMAIN resp.out = {"returned"}
        /\ resp.out.returned = (resp.req.permission \in TableRow(resp.req.role))
        /\ resp.req.role \notin UserRole => resp.out.returned = FALSE

C1_Witness ==
    /\ resp.op = "check_permission"
    /\ resp.req.role = "guest"
    /\ resp.req.permission = "dashboard:read"
    /\ resp.out.returned = FALSE

\* The permission each protected endpoint requires.
ProtectedOps == {"dashboard", "detailed", "export"}

RequiredPermission(op) ==
    CASE op = "dashboard" -> "dashboard:read"
      [] op = "detailed"  -> "analytics:read"
      [] op = "export"    -> "reports:export"

\* The subject a bearer credential names, if it names one.
SubjectOf(token) ==
    IF "payload" \in DOMAIN token /\ "sub" \in DOMAIN token.payload
    THEN token.payload.sub ELSE NoneKey

\* The credential is a token signed with the server's key, unexpired at t.
TokenValid(token, t) ==
    /\ "payload" \in DOMAIN token
    /\ token.key = SECRET_KEY
    /\ token.payload.exp >= t

\* The credential authenticates a stored, active user at time t.  (The store
\* is the one the request saw: only register and login change it, and they
\* replace resp.)
Authenticates(token, t) ==
    /\ TokenValid(token, t)
    /\ SubjectOf(token) \in DOMAIN users_db
    /\ users_db[SubjectOf(token)].is_active

BodyRan(out) == "body" \in DOMAIN out

\* C2: a protected handler's body runs only if the role of the authenticated
\* active user holds the required permission in the table; an authenticated
\* active user without it gets Forbidden and no body runs; with it the
\* request succeeds (so a viewer's export is Forbidden, a manager's succeeds).
C2_PermissionEnforced ==
    resp.op \in ProtectedOps =>
        LET token == resp.req.token
            required == RequiredPermission(resp.op)
        IN  /\ BodyRan(resp.out) =>
                /\ SubjectOf(token) \in DOMAIN users_db
                /\ required \in TableRow(users_db[SubjectOf(token)].role)
            /\ Authenticates(token, resp.at) =>
                IF required \in TableRow(users_db[SubjectOf(token)].role)
                THEN resp.out.status = 200 /\ BodyRan(resp.out)
                ELSE resp.out.kind = "Forbidden" /\ resp.out.status = 403
                     /\ ~BodyRan(resp.out)

C2_Witness ==
    /\ resp.op = "export"
    /\ SubjectOf(resp.req.token) = "viewer@example.com"
    /\ resp.out.kind = "Forbidden"
    /\ ~BodyRan(resp.out)


AuthenticatedOps == ProtectedOps \cup {"me"}

\* C3: a user whose is_active flag is false gets AccountDisabled, an outcome
\* other than the 401 of Unauthenticated and InvalidCredentials, on login
\* with the correct password and on every authenticated operation called
\* with an otherwise valid token.
C3_DisabledAccount ==
    /\ (/\ resp.op = "login"
        /\ resp.req.email \in DOMAIN users_db
        /\ ~users_db[resp.req.email].is_active
        /\ resp.req.password = pw_secret)
           => resp.out.kind = "AccountDisabled" /\ resp.out.status # 401
    /\ (/\ resp.op \in AuthenticatedOps
        /\ TokenValid(resp.req.token, resp.at)
        /\ SubjectOf(resp.req.token) \in DOMAIN users_db
        /\ ~users_db[SubjectOf(resp.req.token)].is_active)
           => resp.out.kind = "AccountDisabled" /\ resp.out.status # 401

\* C4: a request whose token is invalid, expired, without a subject claim, or
\* whose subject is no key of the user store ends in Unauthenticated (401)
\* and no handler body runs; an unknown subject gets the same error kind as
\* a bad token.
C4_Unauthenticated ==
    resp.op \in AuthenticatedOps =>
        LET token == resp.req.token
        IN  (\/ ~TokenValid(token, resp.at)
             \/ "sub" \notin DOMAIN token.payload
             \/ SubjectOf(token) \notin DOMAIN users_db)
                => /\ resp.out.kind = "Unauthenticated"
                   /\ resp.out.status = 401
                   /\ ~BodyRan(resp.out)

C4_Witness ==
    /\ resp.op \in ProtectedOps
    /\ TokenValid(resp.req.token, resp.at)
    /\ SubjectOf(resp.req.token) = "nobody@example.com"
    /\ resp.out.status = 401
    /\ ~BodyRan(resp.out)


\* The password policy as the specification gives it: length >= 8 with an
\* upper-case letter, a lower-case letter and a digit.
MeetsPolicy(password) ==
    /\ Len(password) >= 8
    /\ \E i \in DOMAIN password : password[i] \in UpperChars
    /\ \E i \in DOMAIN password : password[i] \in LowerChars
    /\ \E i \in DOMAIN password : password[i] \in DigitChars

\* A registration body that passes request validation and the policy.
Registrable(body) ==
    /\ Len(body.password) >= 8
    /\ Len(body.password) <= 100
    /\ body.role \in UserRole \cup {Absent}
    /\ MeetsPolicy(body.password)

\* A step that serves a registration (and is no stuttering step).
RegisterStep == resp'.op = "register" /\ <<users_db, resp>>' # <<users_db, resp>>

\* C5 as stated: every registration of an email that is already a key of
\* the user store fails with DuplicateEmail.  (A registration that did not
\* create the record it names found it in the store.)
C5_AsStated ==
    (/\ resp.op = "register"
     /\ resp.req.email \in DOMAIN users_db
     /\ resp.out.status # 201)
        => resp.out.kind = "DuplicateEmail"

\* C5, amended: registering an email that is already a key of the user store
\* issues no token and leaves the store unchanged, and it fails with
\* DuplicateEmail when the body passes request validation and the password
\* policy (a body that does not is rejected before the store is read).
C5_DuplicateEmail ==
    [][(RegisterStep /\ resp'.req.email \in DOMAIN users_db) =>
          /\ users_db' = users_db
          /\ held' = held
          /\ resp'.out.status # 201
          /\ ~BodyRan(resp'.out)
          /\ Registrable(resp'.req) =>
                /\ resp'.out.kind = "DuplicateEmail"
                /\ resp'.out.status = 400
                /\ resp'.out.detail = "Email already registered"]_vars

\* A second registration of an email created by an earlier registration.
C5_Witness ==
    /\ resp.op = "register"
    /\ resp.req.email \in NewEmails
    /\ resp.out.kind = "DuplicateEmail"
    /\ Len(reg_log[resp.req.email]) = 1

\* C6 as stated: of the registrations for one email, every one but the one
\* that succeeded fails with DuplicateEmail.
C6_AsStated ==
    (/\ resp.op = "register"
     /\ Len(reg_log[resp.req.email]) >= 1
     /\ resp.out.status # 201)
        => resp.out.kind = "DuplicateEmail"

\* C6, amended: in any order of serving registrations for one not yet
\* registered email whose bodies pass request validation and the password
\* policy, exactly one is answered 201 and every other one DuplicateEmail;
\* no email ever gets two tokens from registration, and the record stays
\* the first registrant's.
C6_OneRegistrationWins ==
    /\ \A e \in AllEmails :
          /\ Len(reg_log[e]) <= 1
          /\ e \in DemoEmails => reg_log[e] = <<>>
          /\ Len(reg_log[e]) = 1 =>
                /\ e \in DOMAIN users_db
                /\ users_db[e].role = reg_log[e][1].role
                /\ users_db[e].full_name = reg_log[e][1].full_name
                /\ users_db[e].hashed_password.plain = reg_log[e][1].password
    /\ (resp.op = "register" /\ Registrable(resp.req)) =>
          /\ resp.out.status = 201 \/ resp.out.kind = "DuplicateEmail"
          /\ resp.req.email \in NewEmails => Len(reg_log[resp.req.email]) = 1

\* Two registrations for one email with different roles: the first one's
\* record stands and the second is answered DuplicateEmail.
C6_Witness ==
    /\ resp.op = "register"
    /\ Registrable(resp.req)
    /\ resp.out.kind = "DuplicateEmail"
    /\ Len(reg_log[resp.req.email]) = 1
    /\ reg_log[resp.req.email][1].role # UserCreate(resp.req).role
    /\ users_db[resp.req.email].role = reg_log[resp.req.email][1].role

\* C7: login with an email that is not in the user store and login with a
\* stored email and a wrong password get the same response, 401 with the
\* message "Invalid email or password", and no token.
C7_InvalidCredentials ==
    (/\ resp.op = "login"
     /\ \/ resp.req.email \notin DOMAIN users_db
        \/ users_db[resp.req.email].hashed_password.plain # resp.req.password)
        => /\ resp.out.kind = "InvalidCredentials"
           /\ resp.out.status = 401
           /\ resp.out.detail = "Invalid email or password"
           /\ DOMAIN resp.out = {"status", "kind", "detail"}

\* A login for an email that was never registered.
C7_Witness ==
    /\ resp.op = "login"
    /\ resp.req.email \notin DOMAIN users_db
    /\ resp.out.status = 401


\* C8: the token a client was issued at time iat for a stored active user is
\* accepted by get_current_user at every time <= iat + 30 minutes and
\* rejected at every later time, whatever requests were served in between.
C8_TokenLifetime ==
    held # None =>
        /\ held.token.payload.exp = held.iat + 30
        /\ held.token.payload.sub \in DOMAIN users_db
        /\ users_db[held.token.payload.sub].is_active =>
              (get_current_user(users_db, held.token, now).ok
                  <=> now <= held.iat + 30)
        /\ (resp.op \in AuthenticatedOps /\ resp.req.token = held.token) =>
              (resp.out.status # 401 <=> resp.at <= held.iat + 30)

\* The issued token, presented after its lifetime, was refused.
C8_Witness ==
    /\ held # None
    /\ resp.op = "me"
    /\ resp.req.token = held.token
    /\ resp.at > held.iat + 30
    /\ resp.out.status = 401

\* C9: a successful registration stores the role the body gives, viewer when
\* it gives none; the register request carries no credential, and the token
\* returned for a body with role admin passes the check of every permission
\* of the table, users:manage included, and opens every protected endpoint
\* while it is unexpired.
C9_SelfAssignedRole ==
    (resp.op = "register" /\ resp.out.status = 201) =>
        LET body == resp.req
            token == resp.out.body.access_token
            role == IF body.role = Absent THEN "viewer" ELSE body.role
            current == get_current_active_user(users_db, token, now)
        IN  /\ DOMAIN body = {"email", "password", "full_name", "role"}
            /\ users_db[body.email].role = role
            /\ resp.out.body.user.role = role
            /\ SubjectOf(token) = body.email
            /\ (body.role = "admin" /\ now <= resp.at + 30) =>
                  /\ current.ok
                  /\ \A p \in TableRow("admin") : check_permission(current.user.role, p)
                  /\ check_permission(current.user.role, "users:manage")
                  /\ get_dashboard_data(users_db, token, now).status = 200
                  /\ get_detailed_analytics(users_db, token, now).status = 200
                  /\ export_report(users_db, token, now).status = 200

\* A caller that held no token registered as admin.
C9_Witness ==
    /\ resp.op = "register"
    /\ resp.out.status = 201
    /\ resp.req.role = "admin"
    /\ users_db[resp.req.email].role = "admin"
    /\ check_permission(users_db[SubjectOf(held.token)].role, "users:manage")

\* C10: a registration whose password fails the strength policy is rejected
\* with WeakPassword, and neither creates a user nor returns a token.
C10_WeakPassword ==
    (resp.op = "register" /\ ~MeetsPolicy(resp.req.password))
        => /\ resp.out.kind = "WeakPassword"
           /\ resp.out.status = 400
           /\ ~BodyRan(resp.out)

\* C10, the part the code keeps: such a registration is rejected before the
\* user store is read (the store, the client's token and the log of
\* registrations are unchanged, and the answer is never DuplicateEmail); the
\* answer is WeakPassword (400) for a password of 8 to 100 characters and
\* the 422 of request validation for a shorter or longer one.
C10_RejectedBeforeStore ==
    [][(RegisterStep /\ ~MeetsPolicy(resp'.req.password)) =>
          /\ users_db' = users_db
          /\ held' = held
          /\ reg_log' = reg_log
          /\ ~BodyRan(resp'.out)
          /\ resp'.out.kind # "DuplicateEmail"
          /\ IF Len(resp'.req.password) >= 8 /\ Len(resp'.req.password) <= 100
             THEN resp'.out.kind = "WeakPassword" /\ resp'.out.status = 400
             ELSE resp'.out.kind = "ValidationError" /\ resp'.out.status = 422]_vars

\* C11: the authentication pipeline (get_current_user,
\* get_current_active_user, require_permission) and every protected read
\* operation leave the user store unchanged, whether the request succeeds or
\* fails: the set of users and every field of every record are the same
\* before and after, and so is the store the pipeline hands back for the
\* credential of the request.
C11_ReadsLeaveStore ==
    [][resp'.op \in AuthenticatedOps =>
          /\ users_db' = users_db
          /\ DOMAIN users_db' = DOMAIN users_db
          /\ get_current_user(users_db, resp'.req.token, resp'.at).db = users_db
          /\ get_current_active_user(users_db, resp'.req.token, resp'.at).db
                = users_db]_vars

\* A successful read of a record that a login had stamped, and a refused
\* export, both over a store that a registration had extended.
C11_Witness ==
    /\ NewEmails \subseteq DOMAIN users_db
    /\ \/ /\ resp.op = "me"
          /\ resp.out.status = 200
          /\ resp.out.body.last_login # NoTime
       \/ /\ resp.op = "export"
          /\ resp.out.status = 403

\* C12: a successful login for email e changes only the last_login field of
\* e's record and nothing of any other record; a failed login (unknown
\* email, wrong password, or inactive account) changes nothing in the user
\* store, so last_login is written only after the credential check and the
\* active check have both passed.
C12_LoginFrame ==
    [][resp'.op = "login" =>
          LET e == resp'.req.email
              known == e \in DOMAIN users_db
              verified == known /\ verify_password(resp'.req.password,
                                                   users_db[e].hashed_password)
              active == known /\ users_db[e].is_active
          IN  /\ resp'.out.status = 200 <=> (verified /\ active)
              /\ ~(verified /\ active) => users_db' = users_db
              /\ (verified /\ active) =>
                    /\ DOMAIN users_db' = DOMAIN users_db
                    /\ \A k \in DOMAIN users_db \ {e} : users_db'[k] = users_db[k]
                    /\ DOMAIN users_db'[e] = DOMAIN users_db[e]
                    /\ \A f \in DOMAIN users_db[e] \ {"last_login"} :
                          users_db'[e][f] = users_db[e][f]
                    /\ users_db'[e].last_login = <<resp'.at>>]_vars

\* A second successful login of a registered user, at a later time than the
\* registration: the record carries the time of this login.
C12_Witness ==
    /\ resp.op = "login"
    /\ resp.out.status = 200
    /\ resp.req.email \in NewEmails
    /\ users_db[resp.req.email].last_login = <<resp.at>>
    /\ users_db[resp.req.email].created_at < resp.at
    /\ users_db["viewer@example.com"].last_login # NoTime

\* A login with the right password for a deactivated account was refused
\* and left no timestamp.
C12_InactiveRefused ==
    /\ resp.op = "login"
    /\ resp.out.kind = "AccountDisabled"
    /\ users_db[resp.req.email].last_login = NoTime

\* The permissions a role holds, among the strings a caller can ask for.
PermissionSet(role) == {p \in PermissionStrings : check_permission(role, p)}

\* C13: across every sequence of register, login and authenticated requests
\* a user record, once created, is never removed and its id, email, role and
\* password hash never change; so the set of registered emails only grows
\* and a user's permission set is the same in every later state.
C13_RecordsStable ==
    [][users_db' # users_db =>
          /\ DOMAIN users_db \subseteq DOMAIN users_db'
          /\ \A e \in DOMAIN users_db :
                /\ users_db'[e].id = users_db[e].id
                /\ users_db'[e].email = users_db[e].email
                /\ users_db'[e].email = e
                /\ users_db'[e].role = users_db[e].role
                /\ users_db'[e].hashed_password = users_db[e].hashed_password
                /\ PermissionSet(users_db'[e].role)
                      = PermissionSet(users_db[e].role)]_vars

\* A registered user has logged in, and a later registration for the same
\* email that asked for another role and password was turned away: the
\* record still has the role and the password it was created with.
C13_Witness ==
    /\ resp.op = "register"
    /\ resp.out.kind = "DuplicateEmail"
    /\ resp.req.email \in NewEmails
    /\ users_db[resp.req.email].last_login # NoTime
    /\ users_db[resp.req.email].role = "admin"
    /\ resp.req.role = Absent
    /\ reg_log[resp.req.email][1].role = "admin"
    /\ users_db[resp.req.email].id = Cardinality(DemoEmails) + 1

\* C14: in login the credential check precedes the active check: an inactive
\* user who presents a wrong password gets InvalidCredentials, and
\* AccountDisabled is returned only when the email exists and the password
\* verifies.  (A failed login leaves the store as it was, so the store of
\* the state is the one the login read.)
C14_CredentialsBeforeActive ==
    resp.op = "login" =>
        LET e == resp.req.email
            known == e \in DOMAIN users_db
        IN  /\ (/\ known
                /\ ~users_db[e].is_active
                /\ ~verify_password(resp.req.password, users_db[e].hashed_password))
                   => /\ resp.out.kind = "InvalidCredentials"
                      /\ resp.out.status = 401
            /\ resp.out.kind = "AccountDisabled" =>
                   /\ known
                   /\ verify_password(resp.req.password, users_db[e].hashed_password)
                   /\ ~users_db[e].is_active
                   /\ resp.out.status = 400

\* The deactivated account, tried with a password that is not its own.
C14_Witness ==
    /\ resp.op = "login"
    /\ resp.req.email \in Deactivatable
    /\ ~users_db[resp.req.email].is_active
    /\ resp.req.password # pw_secret
    /\ resp.out.kind = "InvalidCredentials"

\* The ids of the stored records.
Ids(db) == {db[e].id : e \in DOMAIN db}

\* C15: after any sequence of registrations (successful or failed) starting
\* from the seeded store, no two user records share an id: the ids are
\* exactly 1..N for N stored users, and the id of a record is the order in
\* which it was created (a step that creates a record creates one, gives it
\* the id N+1 over a store of N records, and keeps every earlier id).
C15_IdsAreCreationOrder ==
    /\ [](/\ Ids(users_db) = 1..Cardinality(DOMAIN users_db)
          /\ \A e1, e2 \in DOMAIN users_db :
                users_db[e1].id = users_db[e2].id => e1 = e2)
    /\ [][users_db' # users_db =>
             /\ resp'.out.status = 201
             /\ DOMAIN users_db' = DOMAIN users_db \cup {resp'.req.email}
             /\ resp'.req.email \notin DOMAIN users_db
             /\ users_db'[resp'.req.email].id = Cardinality(DOMAIN users_db) + 1
             /\ resp'.out.body.user.id = Cardinality(DOMAIN users_db')
             /\ \A e \in DOMAIN users_db : users_db'[e].id = users_db[e].id]_vars

\* Three registrations succeeded, in an order that is not the order of the
\* emails, and others failed: the ids follow the order of creation.
C15_Witness ==
    /\ Cardinality(DOMAIN users_db) = Cardinality(DemoEmails) + 3
    /\ users_db["new3@example.com"].id = 5
    /\ users_db["new1@example.com"].id = 6
    /\ users_db["new2@example.com"].id = 7
    /\ resp.op = "register"
    /\ resp.out.status # 201

\* The operations of Backend.py and the permission the table check asks for
\* the same operation.
BackendOps == {"Backend.dashboard", "Backend.detailed", "Backend.export", "Backend.users"}

TablePermission(op) ==
    CASE op = "Backend.dashboard" -> "dashboard:read"
      [] op = "Backend.detailed"  -> "analytics:read"
      [] op = "Backend.export"    -> "reports:export"
      [] op = "Backend.users"     -> "users:manage"

\* The permission that goes with a required role in Backend.py.
PermissionOfRank(required_role) ==
    CASE required_role = "analyst" -> "analytics:read"
      [] required_role = "manager" -> "reports:export"
      [] required_role = "admin"   -> "users:manage"

\* C16: for each of the four roles, the numeric-rank check of Backend.py
\* (required role analyst for detailed analytics, manager for report
\* export, admin for user management, no check for the dashboard) gives the
\* same allow/deny decision as the permission-table check with
\* analytics:read, reports:export, users:manage and dashboard:read.
C16_RankMatchesTable ==
    /\ (resp.op \in BackendOps /\ resp.req.role \in UserRole) =>
          /\ resp.out.status \in {200, 403}
          /\ resp.out.status = 200
                <=> check_permission(resp.req.role, TablePermission(resp.op))
          /\ resp.out.status = 403
                <=> require_permission(resp.req.role, TablePermission(resp.op)) # None
    /\ (/\ resp.op = "Backend.check_permission"
        /\ resp.req.role \in UserRole
        /\ resp.req.required_role \in {"analyst", "manager", "admin"}) =>
          (resp.out = None
              <=> check_permission(resp.req.role,
                                   PermissionOfRank(resp.req.required_role)))

\* An analyst asked for the report export of Backend.py and was refused, as
\* the table refuses reports:export to an analyst.
C16_Witness ==
    /\ resp.op = "Backend.export"
    /\ resp.req.role = "analyst"
    /\ resp.out.status = 403
    /\ ~check_permission("analyst", "reports:export")

\* C17: in every state reachable from the seeded store through register,
\* login and authenticated requests, every user record has is_active = true;
\* so the inactive-account branches of login_user, get_current_user and
\* get_current_active_user are never taken (no response is AccountDisabled,
\* and the 401 "User not found or inactive" is given for an unknown subject
\* only), and the check of get_current_active_user never fails for a user
\* that get_current_user returned.
C17_AlwaysActive ==
    /\ \A e \in DOMAIN users_db : users_db[e].is_active = TRUE
    /\ resp.op \in AuthenticatedOps \cup {"login", "register"} =>
          /\ resp.out.kind # "AccountDisabled"
          /\ resp.out # InactiveAccount
          /\ resp.out # InactiveUser
    /\ (/\ resp.op \in AuthenticatedOps
        /\ resp.out.status = 401
        /\ resp.out.detail = "User not found or inactive")
          => SubjectOf(resp.req.token) \notin DOMAIN users_db
    /\ \A token \in PresentedTokens :
          LET current_user == get_current_user(users_db, token, now)
              active_user == get_current_active_user(users_db, token, now)
          IN  /\ current_user.ok => (active_user.ok /\ active_user.user.is_active)
              /\ ~active_user.ok => active_user.error # InactiveUser

\* A user who registered has logged in and is served /auth/me with the token
\* of the login: the three is_active tests were passed.
C17_Witness ==
    /\ resp.op = "me"
    /\ resp.out.status = 200
    /\ SubjectOf(resp.req.token) \in NewEmails
    /\ held # None
    /\ resp.req.token = held.token
    /\ users_db[SubjectOf(resp.req.token)].last_login = <<held.iat>>
    /\ resp.out.body.is_active = TRUE

====
